---------------------------- MODULE Spec2Model ----------------------------
(***************************************************************************)
(* Model of src/main.py: the rule engine (Rule, KnowledgeBase,             *)
(* ExpertSystem), the vehicle (Car) and the phase state machine and tick   *)
(* loop of ParkingSimulation.                                              *)
(*                                                                         *)
(* The program computes with floats; the model computes with scaled        *)
(* integers:                                                               *)
(*   lengths, positions, sensor distances : tenths of a pixel              *)
(*   throttle, speed                      : thousandths                    *)
(*   angles, steering                     : hundredths of a degree         *)
(*   time (dt, phase_timer)               : milliseconds                   *)
(* A product with a decimal factor is rounded to the nearest unit.         *)
(***************************************************************************)
EXTENDS Integers, Sequences, FiniteSets, TLC

VARIABLES
    current_phase,     \* ParkingSimulation.current_phase (the enum's value string)
    selected_spot,     \* ParkingSimulation.selected_spot: 0 is None, i is parking_spots[i]
    parked,            \* ParkingSimulation.parked
    phase_timer,       \* ParkingSimulation.phase_timer, ms
    player_car,        \* ParkingSimulation.player_car: the Car's fields
    obstacle_cars,     \* ParkingSimulation.obstacle_cars: sequence of [x, y]
    facts,             \* expert_system.knowledge_base.facts
    decision_history,  \* expert_system.decision_history
    decision_info,     \* ParkingSimulation.decision_info (NoDecision is None)
    pc,                \* position in the loop body of run()
    tick_dt,           \* the dt of the loop iterations of run(), ms
    manual_count,      \* manual advances made since construction
    engine_config,     \* expert_system.config, the ParkingConfig the engine was built from
    last               \* the operation that made the last step, and the phase before it

vars == <<current_phase, selected_spot, parked, phase_timer, player_car,
          obstacle_cars, facts, decision_history, decision_info, pc, tick_dt,
          manual_count, engine_config, last>>

---------------------------------------------------------------------------
(* Module constants of main.py.                                            *)

HEIGHT == 700
CAR_LENGTH == 80
CAR_WIDTH == 40
SENSOR_RANGE == 400

\* ParkingPhase, in declaration order (values of the enum members).
ParkingPhase ==
    <<"searching", "approach", "positioning", "prepare_reverse",
      "reverse_right", "reverse_left", "final_adjust", "parked", "aborted">>

PhaseValues == {ParkingPhase[i] : i \in 1..Len(ParkingPhase)}

\* RulePriority values.
HIGH == 3
MEDIUM == 2
LOW == 1

\* ParkingConfig(...): the dataclass stores its fields as they are given
\* (speeds in thousandths, the ratio and the sensitivity in tenths).
ParkingConfigNew(ratio, range, speed, reverse_speed, margin, sensitivity) ==
    [turn_radius_ratio |-> ratio, sensor_range |-> range,
     max_speed |-> speed, max_reverse_speed |-> reverse_speed,
     safety_margin |-> margin, steering_sensitivity |-> sensitivity]

\* ParkingConfig as ParkingSimulation.__init__ builds it.
config == ParkingConfigNew(25, SENSOR_RANGE, 2500, 1500, 30, 3)

\* ExpertSystem(config): the configuration is kept, as it is, by the engine
\* and by the KnowledgeBase it creates.
ExpertSystemNew(cfg) == cfg

\* No engine has been constructed.
NoEngine == [constructed |-> FALSE]

---------------------------------------------------------------------------
(* Arithmetic helpers.                                                     *)

Abs(n) == IF n < 0 THEN -n ELSE n

Max(a, b) == IF a >= b THEN a ELSE b

\* n / d rounded to the nearest integer (d > 0); stands for a float quotient.
Round(n, d) == (2 * n + d) \div (2 * d)

---------------------------------------------------------------------------
(* Values of a decision's throttle and steering: a number, or a string     *)
(* (an action template that was left as text).                             *)

Num(n) == [tag |-> "num", num |-> n, str |-> ""]
Str(s) == [tag |-> "str", num |-> 0, str |-> s]

\* float(v) as run() applies it to decision_info["throttle"/"steering"]:
\* a number is itself, the strings "20" and "0" parse to 20.0 and 0.0
\* (steering is in hundredths of a degree).
ToFloat(v) ==
    IF v.tag = "num" THEN v.num
    ELSE CASE v.str = "20" -> 2000
           [] v.str = "0" -> 0

\* Whether float(v) raises ValueError: v is a string that is no number (an
\* action template left as text).
FloatRaises(v) == v.tag = "str" /\ v.str \notin {"20", "0"}

---------------------------------------------------------------------------
(* Parking spots: _create_parking_spots.                                   *)

spot_positions == <<400, 550, 700, 850, 1000, 1150>>

parking_spots ==
    [i \in 1..Len(spot_positions) |->
        [x |-> spot_positions[i] * 10,
         y |-> (HEIGHT - 150) * 10,
         occupied |-> (i - 1 = 1 \/ i - 1 = 3)]]

(* The fact store: a function from the names of the facts present to       *)
(* their values.                                                           *)

EmptyFacts == [k \in {} |-> 0]

Has(f, k) == k \in DOMAIN f

\* dict.update: the keys of g are set, the other keys of f kept.
DictUpdate(f, g) ==
    [k \in DOMAIN f \cup DOMAIN g |-> IF k \in DOMAIN g THEN g[k] ELSE f[k]]

\* selected_spot.x / selected_spot.y inside an expression: the attribute
\* access raises when the fact is absent or None.
SpotOk(f) == Has(f, "selected_spot") /\ f["selected_spot"] # 0
SpotX(f) == parking_spots[f["selected_spot"]].x
SpotY(f) == parking_spots[f["selected_spot"]].y

\* car_y - (selected_spot.y - CAR_WIDTH * 1.5), tenths of a pixel.
LaneOffset(f) == f["car_y"] - (SpotY(f) - CAR_WIDTH * 15)

---------------------------------------------------------------------------
(* Rule conditions.  Rule.evaluate substitutes the numeric and string      *)
(* facts into the condition text and evaluates it with the fact store as   *)
(* the local scope; a name that is not a fact, or an attribute of None,    *)
(* raises, and evaluate catches it.  The value of one condition is         *)
(* "T" (true), "F" (false) or "E" (raised).                                *)

Tri(b) == IF b THEN "T" ELSE "F"

\* The conditions of the form  phase == '<value>'.
PhaseEqConds ==
    [c \in {"phase == 'searching'", "phase == 'approach'",
            "phase == 'positioning'", "phase == 'reverse_right'",
            "phase == 'reverse_left'", "phase == 'parked'"} |->
        CASE c = "phase == 'searching'" -> "searching"
          [] c = "phase == 'approach'" -> "approach"
          [] c = "phase == 'positioning'" -> "positioning"
          [] c = "phase == 'reverse_right'" -> "reverse_right"
          [] c = "phase == 'reverse_left'" -> "reverse_left"
          [] c = "phase == 'parked'" -> "parked"]

EvalCond(c, f) ==
    CASE c \in DOMAIN PhaseEqConds ->
            IF Has(f, "phase") THEN Tri(f["phase"] = PhaseEqConds[c]) ELSE "E"
      [] c = "phase != 'parked'" ->
            IF Has(f, "phase") THEN Tri(f["phase"] # "parked") ELSE "E"
      [] c = "car_x < 300" ->
            IF Has(f, "car_x") THEN Tri(f["car_x"] < 300 * 10) ELSE "E"
      [] c = "front_sensor < 30" ->
            IF Has(f, "front_sensor") THEN Tri(f["front_sensor"] < 30 * 10) ELSE "E"
      [] c = "front_sensor < 100" ->
            IF Has(f, "front_sensor") THEN Tri(f["front_sensor"] < 100 * 10) ELSE "E"
      [] c = "throttle > 0" ->
            IF Has(f, "throttle") THEN Tri(f["throttle"] > 0) ELSE "E"
      [] c = "selected_spot is None" ->
            IF Has(f, "selected_spot") THEN Tri(f["selected_spot"] = 0) ELSE "E"
      [] c = "selected_spot is not None" ->
            IF Has(f, "selected_spot") THEN Tri(f["selected_spot"] # 0) ELSE "E"
      [] c = "abs(left_sensor - right_sensor) > 50" ->
            IF Has(f, "left_sensor") /\ Has(f, "right_sensor")
            THEN Tri(Abs(f["left_sensor"] - f["right_sensor"]) > 50 * 10)
            ELSE "E"
      [] c = "car_x < selected_spot.x - 100" ->
            IF Has(f, "car_x") /\ SpotOk(f)
            THEN Tri(f["car_x"] < SpotX(f) - 100 * 10)
            ELSE "E"
      [] c = "car_x < selected_spot.x + CAR_LENGTH * 1.5" ->
            IF Has(f, "car_x") /\ SpotOk(f)
            THEN Tri(f["car_x"] < SpotX(f) + CAR_LENGTH * 15)
            ELSE "E"
      [] c = "car_x >= selected_spot.x + CAR_LENGTH * 1.5 - 40" ->
            IF Has(f, "car_x") /\ SpotOk(f)
            THEN Tri(f["car_x"] >= SpotX(f) + CAR_LENGTH * 15 - 40 * 10)
            ELSE "E"
      [] c = "car_x <= selected_spot.x + CAR_LENGTH * 1.5 + 40" ->
            IF Has(f, "car_x") /\ SpotOk(f)
            THEN Tri(f["car_x"] <= SpotX(f) + CAR_LENGTH * 15 + 40 * 10)
            ELSE "E"
      [] c = "abs(car_angle) > 2 or abs(car_y - (selected_spot.y - CAR_WIDTH * 1.5)) > 15" ->
            \* "or" evaluates its right operand only when the left is false
            IF ~Has(f, "car_angle") THEN "E"
            ELSE IF Abs(f["car_angle"]) > 2 * 100 THEN "T"
            ELSE IF Has(f, "car_y") /\ SpotOk(f)
                 THEN Tri(Abs(LaneOffset(f)) > 15 * 10)
                 ELSE "E"
      [] c = "abs(car_angle) < 3" ->
            IF Has(f, "car_angle") THEN Tri(Abs(f["car_angle"]) < 3 * 100) ELSE "E"
      [] c = "abs(car_y - (selected_spot.y - CAR_WIDTH * 1.5)) < 15" ->
            IF Has(f, "car_y") /\ SpotOk(f)
            THEN Tri(Abs(LaneOffset(f)) < 15 * 10)
            ELSE "E"
      [] c = "front_right_sensor < 120" ->
            IF Has(f, "front_right_sensor")
            THEN Tri(f["front_right_sensor"] < 120 * 10)
            ELSE "E"
      [] c = "car_angle > -35" ->
            IF Has(f, "car_angle") THEN Tri(f["car_angle"] > -35 * 100) ELSE "E"
      [] c = "car_angle <= -30" ->
            IF Has(f, "car_angle") THEN Tri(f["car_angle"] <= -30 * 100) ELSE "E"
      [] c = "abs(car_angle) > 3" ->
            IF Has(f, "car_angle") THEN Tri(Abs(f["car_angle"]) > 3 * 100) ELSE "E"

\* Rule.evaluate: the conditions in order; the first that is false, or that
\* raises, makes the result False.
RECURSIVE EvalFrom(_, _, _)
EvalFrom(conds, i, f) ==
    IF i > Len(conds) THEN TRUE
    ELSE IF EvalCond(conds[i], f) = "T" THEN EvalFrom(conds, i + 1, f)
    ELSE FALSE

\* Mutant: a condition that raises is passed over instead of failing the
\* rule.
evaluate_passing_over_errors(rule, f) ==
    \A k \in 1..Len(rule.conditions) : EvalCond(rule.conditions[k], f) # "F"

\* Mutant: the default rule never applies.
evaluate_without_default(rule, f) ==
    rule.key # "default_stop" /\ EvalFrom(rule.conditions, 1, f)

evaluate(rule, f) == EvalFrom(rule.conditions, 1, f)

---------------------------------------------------------------------------
(* The rule table, in the order _build_rules inserts the rules.  A rule is *)
(* identified by its key in the table; the decision's rule_applied is the  *)
(* rule's display name, which is different for every rule.                 *)

MkRule(key, priority, conditions, throttle, steering, emergency) ==
    [key |-> key, priority |-> priority, conditions |-> conditions,
     throttle |-> throttle, steering |-> steering, emergency |-> emergency]

Rules == <<
    MkRule("initial_start", HIGH,
           <<"phase == 'searching'", "car_x < 300">>,
           Str("config.max_speed * 0.7"), Num(0), FALSE),
    MkRule("emergency_stop", HIGH,
           <<"front_sensor < 30", "throttle > 0">>,
           Num(0), Num(0), TRUE),
    MkRule("slow_down", HIGH,
           <<"front_sensor < 100", "throttle > 0">>,
           Str("throttle * 0.5"), Num(0), FALSE),
    MkRule("straight_search", MEDIUM,
           <<"phase == 'searching'", "selected_spot is None">>,
           Str("config.max_speed * 0.7"), Num(0), FALSE),
    MkRule("center_correction", MEDIUM,
           <<"phase == 'searching'", "abs(left_sensor - right_sensor) > 50">>,
           Str("config.max_speed * 0.7"),
           Str("(right_sensor - left_sensor) * 0.01"), FALSE),
    MkRule("spot_found", MEDIUM,
           <<"phase == 'searching'", "selected_spot is not None",
             "car_x < selected_spot.x - 100">>,
           Str("config.max_speed * 0.6"), Num(0), FALSE),
    MkRule("approach_spot", MEDIUM,
           <<"phase == 'approach'", "selected_spot is not None",
             "car_x < selected_spot.x + CAR_LENGTH * 1.5">>,
           Str("config.max_speed * 0.5"),
           Str("-(car_y - (selected_spot.y - CAR_WIDTH * 1.5)) * 0.008"), FALSE),
    MkRule("stop_for_maneuver", MEDIUM,
           <<"phase == 'approach'", "selected_spot is not None",
             "car_x >= selected_spot.x + CAR_LENGTH * 1.5 - 40",
             "car_x <= selected_spot.x + CAR_LENGTH * 1.5 + 40">>,
           Num(0), Num(0), FALSE),
    MkRule("align_parallel", MEDIUM,
           <<"phase == 'positioning'", "selected_spot is not None",
             "abs(car_angle) > 2 or abs(car_y - (selected_spot.y - CAR_WIDTH * 1.5)) > 15">>,
           Str("config.max_speed * 0.3"),
           Str("-car_angle * 0.15 - (car_y - (selected_spot.y - CAR_WIDTH * 1.5)) * 0.01"),
           FALSE),
    MkRule("ready_for_reverse", MEDIUM,
           <<"phase == 'positioning'", "selected_spot is not None",
             "abs(car_angle) < 3",
             "abs(car_y - (selected_spot.y - CAR_WIDTH * 1.5)) < 15",
             "front_right_sensor < 120">>,
           Num(0), Num(0), FALSE),
    MkRule("start_reverse", HIGH,
           <<"phase == 'reverse_right'", "car_angle > -35">>,
           Str("-config.max_reverse_speed * 0.3"), Str("20"), FALSE),
    MkRule("transition_to_align", HIGH,
           <<"phase == 'reverse_right'", "car_angle <= -30">>,
           Str("-config.max_reverse_speed * 0.2"), Str("0"), FALSE),
    MkRule("reverse_align", MEDIUM,
           <<"phase == 'reverse_left'", "abs(car_angle) > 3">>,
           Str("-config.max_reverse_speed * 0.25"),
           Str("-12 - car_angle * 0.1"), FALSE),
    MkRule("default_stop", LOW,
           <<"phase != 'parked'">>,
           Num(0), Num(0), FALSE),
    MkRule("parking_complete", MEDIUM,
           <<"phase == 'parked'">>,
           Num(0), Num(0), FALSE) >>

RuleKeys == {Rules[i].key : i \in 1..Len(Rules)}

\* The declaration index of the rule with this key.
RuleIndex(key) == CHOOSE i \in 1..Len(Rules) : Rules[i].key = key

---------------------------------------------------------------------------
(* sorted(self.rules.values(), key=priority.value, reverse=True): sorted   *)
(* is stable, also with reverse=True, so rules of equal priority keep      *)
(* their declaration order.                                                *)

\* r inserted into s (descending by priority) behind every rule whose
\* priority is at least r's.
RECURSIVE InsertByPriority(_, _)
InsertByPriority(r, s) ==
    IF s = <<>> THEN <<r>>
    ELSE IF Head(s).priority >= r.priority
         THEN <<Head(s)>> \o InsertByPriority(r, Tail(s))
         ELSE <<r>> \o s

RECURSIVE SortPrefix(_, _)
SortPrefix(rs, n) ==
    IF n = 0 THEN <<>>
    ELSE InsertByPriority(rs[n], SortPrefix(rs, n - 1))

\* Mutant: ascending order (reverse=True forgotten).
RECURSIVE InsertAscending(_, _)
InsertAscending(r, s) ==
    IF s = <<>> THEN <<r>>
    ELSE IF Head(s).priority <= r.priority
         THEN <<Head(s)>> \o InsertAscending(r, Tail(s))
         ELSE <<r>> \o s

RECURSIVE SortPrefixAscending(_, _)
SortPrefixAscending(rs, n) ==
    IF n = 0 THEN <<>>
    ELSE InsertAscending(rs[n], SortPrefixAscending(rs, n - 1))

sorted_rules_ascending == SortPrefixAscending(Rules, Len(Rules))

\* Mutant: descending, but equal priorities in reversed declaration order
\* (an ascending sort that is then reversed).
sorted_rules_reversed_ties ==
    [i \in 1..Len(Rules) |-> sorted_rules_ascending[Len(Rules) + 1 - i]]

sorted_rules == SortPrefix(Rules, Len(Rules))

---------------------------------------------------------------------------
(* Action templates.  infer evaluates a template only when it is a string  *)
(* holding one of the characters + - * / ( ); "20" and "0" hold none and   *)
(* stay strings.  A template whose evaluation raises is left as it is.     *)

ExprTemplates ==
    {"config.max_speed * 0.7", "config.max_speed * 0.6",
     "config.max_speed * 0.5", "config.max_speed * 0.3",
     "throttle * 0.5", "(right_sensor - left_sensor) * 0.01",
     "-(car_y - (selected_spot.y - CAR_WIDTH * 1.5)) * 0.008",
     "-car_angle * 0.15 - (car_y - (selected_spot.y - CAR_WIDTH * 1.5)) * 0.01",
     "-config.max_reverse_speed * 0.3", "-config.max_reverse_speed * 0.2",
     "-config.max_reverse_speed * 0.25", "-12 - car_angle * 0.1"}

\* Whether eval(template) succeeds on the facts: every name it reads is a
\* fact and selected_spot is not None where an attribute of it is read.
ExprOk(e, f) ==
    CASE e = "throttle * 0.5" -> Has(f, "throttle")
      [] e = "(right_sensor - left_sensor) * 0.01" ->
            Has(f, "right_sensor") /\ Has(f, "left_sensor")
      [] e = "-(car_y - (selected_spot.y - CAR_WIDTH * 1.5)) * 0.008" ->
            Has(f, "car_y") /\ SpotOk(f)
      [] e = "-car_angle * 0.15 - (car_y - (selected_spot.y - CAR_WIDTH * 1.5)) * 0.01" ->
            Has(f, "car_angle") /\ Has(f, "car_y") /\ SpotOk(f)
      [] e = "-12 - car_angle * 0.1" -> Has(f, "car_angle")
      [] OTHER -> TRUE

\* Mutant: the search throttle is max_speed / 0.7.
ExprValueDividing(e, f) ==
    CASE e = "config.max_speed * 0.7" -> Round(config.max_speed * 10, 7)
      [] e = "config.max_speed * 0.6" -> Round(config.max_speed * 6, 10)
      [] e = "config.max_speed * 0.5" -> Round(config.max_speed * 5, 10)
      [] e = "config.max_speed * 0.3" -> Round(config.max_speed * 3, 10)
      [] e = "throttle * 0.5" -> Round(f["throttle"] * 5, 10)
      [] e = "(right_sensor - left_sensor) * 0.01" ->
            \* tenths of a pixel * 0.01 degree, in hundredths of a degree
            Round(f["right_sensor"] - f["left_sensor"], 10)
      [] e = "-(car_y - (selected_spot.y - CAR_WIDTH * 1.5)) * 0.008" ->
            Round(-LaneOffset(f) * 8, 100)
      [] e = "-car_angle * 0.15 - (car_y - (selected_spot.y - CAR_WIDTH * 1.5)) * 0.01" ->
            Round(-f["car_angle"] * 15 - LaneOffset(f) * 10, 100)
      [] e = "-config.max_reverse_speed * 0.3" -> Round(-config.max_reverse_speed * 3, 10)
      [] e = "-config.max_reverse_speed * 0.2" -> Round(-config.max_reverse_speed * 2, 10)
      [] e = "-config.max_reverse_speed * 0.25" -> Round(-config.max_reverse_speed * 25, 100)
      [] e = "-12 - car_angle * 0.1" -> Round(-12 * 1000 - f["car_angle"], 10)

\* The value of an action template on the facts (eval succeeded).
ExprValue(e, f) ==
    CASE e = "config.max_speed * 0.7" -> Round(config.max_speed * 7, 10)
      [] e = "config.max_speed * 0.6" -> Round(config.max_speed * 6, 10)
      [] e = "config.max_speed * 0.5" -> Round(config.max_speed * 5, 10)
      [] e = "config.max_speed * 0.3" -> Round(config.max_speed * 3, 10)
      [] e = "throttle * 0.5" -> Round(f["throttle"] * 5, 10)
      [] e = "(right_sensor - left_sensor) * 0.01" ->
            \* tenths of a pixel * 0.01 degree, in hundredths of a degree
            Round(f["right_sensor"] - f["left_sensor"], 10)
      [] e = "-(car_y - (selected_spot.y - CAR_WIDTH * 1.5)) * 0.008" ->
            Round(-LaneOffset(f) * 8, 100)
      [] e = "-car_angle * 0.15 - (car_y - (selected_spot.y - CAR_WIDTH * 1.5)) * 0.01" ->
            Round(-f["car_angle"] * 15 - LaneOffset(f) * 10, 100)
      [] e = "-config.max_reverse_speed * 0.3" -> Round(-config.max_reverse_speed * 3, 10)
      [] e = "-config.max_reverse_speed * 0.2" -> Round(-config.max_reverse_speed * 2, 10)
      [] e = "-config.max_reverse_speed * 0.25" -> Round(-config.max_reverse_speed * 25, 100)
      [] e = "-12 - car_angle * 0.1" -> Round(-12 * 1000 - f["car_angle"], 10)

EvalAction(v, f) ==
    IF v.tag = "str" /\ v.str \in ExprTemplates /\ ExprOk(v.str, f)
    THEN Num(ExprValue(v.str, f))
    ELSE v

---------------------------------------------------------------------------
(* KnowledgeBase.update_facts and KnowledgeBase.infer.                     *)

\* Mutant: a fact already in the store is not overwritten.
update_facts_keeping_old(f, kw) ==
    LET g == DictUpdate(kw, f)
    IN  IF Has(kw, "car_x") /\ Has(kw, "selected_spot") /\ kw["selected_spot"] # 0
        THEN DictUpdate(g, [k \in {"distance_to_spot"} |-> TRUE])
        ELSE g

\* update_facts(**kw): the facts given are set; distance_to_spot is derived
\* when car_x and a selected spot are among them (the model keeps only that
\* the fact is present).
update_facts(f, kw) ==
    LET g == DictUpdate(f, kw)
    IN  IF Has(kw, "car_x") /\ Has(kw, "selected_spot") /\ kw["selected_spot"] # 0
        THEN DictUpdate(g, [k \in {"distance_to_spot"} |-> TRUE])
        ELSE g

\* Whether update_facts(**kw) raises KeyError: distance_to_spot reads
\* facts['car_y'] when car_x and a spot are given.
UpdateFactsRaises(kw) ==
    /\ Has(kw, "car_x") /\ Has(kw, "selected_spot") /\ kw["selected_spot"] # 0
    /\ ~Has(kw, "car_y")

\* The head of infer: config and the constants are set, and throttle,
\* steering and emergency get their defaults when they are absent.
InferFacts(f) ==
    LET g == DictUpdate(f, [k \in {"config", "CAR_LENGTH", "CAR_WIDTH"} |->
                               CASE k = "config" -> TRUE
                                 [] k = "CAR_LENGTH" -> CAR_LENGTH
                                 [] k = "CAR_WIDTH" -> CAR_WIDTH])
        d == [k \in {"throttle", "steering", "emergency"} \ DOMAIN g |->
                 IF k = "emergency" THEN FALSE ELSE 0]
    IN  DictUpdate(g, d)

\* The index in rs of the first rule from i on that evaluate accepts, 0 if none.
RECURSIVE FirstMatch(_, _, _)
FirstMatch(rs, i, f) ==
    IF i > Len(rs) THEN 0
    ELSE IF evaluate(rs[i], f) THEN i
    ELSE FirstMatch(rs, i + 1, f)

\* The decision when no rule applied.
NoRuleDecision ==
    [throttle |-> Num(0), steering |-> Num(0), emergency |-> FALSE,
     rule_applied |-> "none"]

\* Mutant: when no rule applied, the last rule tried is taken.
infer_falling_back_to_last_rule(f) ==
    LET g == InferFacts(f)
        rs == sorted_rules
        m == FirstMatch(rs, 1, g)
        i == IF m = 0 THEN Len(rs) ELSE m
    IN  [throttle |-> EvalAction(rs[i].throttle, g),
         steering |-> EvalAction(rs[i].steering, g),
         emergency |-> rs[i].emergency,
         rule_applied |-> rs[i].key]

\* The decision infer returns on the facts f (as they are on entry).
infer(f) ==
    LET g == InferFacts(f)
        rs == sorted_rules
        i == FirstMatch(rs, 1, g)
    IN  IF i = 0 THEN NoRuleDecision
        ELSE [throttle |-> EvalAction(rs[i].throttle, g),
              steering |-> EvalAction(rs[i].steering, g),
              emergency |-> rs[i].emergency,
              rule_applied |-> rs[i].key]

---------------------------------------------------------------------------
(* ExpertSystem.make_decision: the thirteen facts of the tick are written  *)
(* into the fact store, infer runs on it, and the decision is appended to  *)
(* the decision history.                                                   *)

TickFacts(phase, sensors, car_x, car_y, car_angle, target_spot) ==
    [k \in {"phase", "car_x", "car_y", "car_angle", "selected_spot",
            "front_left_sensor", "front_sensor", "front_right_sensor",
            "left_sensor", "right_sensor", "rear_left_sensor",
            "rear_right_sensor", "rear_sensor"} |->
        CASE k = "phase" -> phase
          [] k = "car_x" -> car_x
          [] k = "car_y" -> car_y
          [] k = "car_angle" -> car_angle
          [] k = "selected_spot" -> target_spot
          [] k = "front_left_sensor" -> sensors[3]    \* sensors[2], 0-based
          [] k = "front_sensor" -> sensors[4]         \* sensors[3]
          [] k = "front_right_sensor" -> sensors[5]   \* sensors[4]
          [] k = "left_sensor" -> sensors[2]          \* sensors[1]
          [] k = "right_sensor" -> sensors[6]         \* sensors[5]
          [] k = "rear_left_sensor" -> sensors[1]     \* sensors[0]
          [] k = "rear_right_sensor" -> sensors[7]    \* sensors[6]
          [] k = "rear_sensor" -> sensors[8]]         \* sensors[7]

\* Mutant: the throttle of the decision is written back into the store.
MakeDecisionFactsWritingBack(f, kw) ==
    LET g == InferFacts(update_facts(f, kw))
        throttle == infer(update_facts(f, kw)).throttle
    IN  DictUpdate(g, [k \in {"throttle"} |->
                          IF throttle.tag = "num" THEN throttle.num ELSE 0])

\* The fact store after make_decision: update_facts, then the head of infer.
\* The decision just made is not written back into it.
MakeDecisionFacts(f, kw) == InferFacts(update_facts(f, kw))

\* The decision make_decision returns.
MakeDecision(f, kw) == infer(update_facts(f, kw))

\* The entry make_decision appends to decision_history.
HistoryEntry(phase, d, sensors, car_x, car_y, car_angle) ==
    [phase |-> phase, decision |-> d, sensors |-> sensors,
     position |-> <<car_x, car_y>>, angle |-> car_angle,
     rule_applied |-> d.rule_applied]

\* Mutant: the history keeps its last two entries only.
AppendHistoryBounded(history, entry) ==
    IF Len(history) >= 2 THEN Append(Tail(history), entry)
    ELSE Append(history, entry)

\* self.decision_history.append(entry).
AppendHistory(history, entry) == Append(history, entry)

---------------------------------------------------------------------------
(* Trigonometry on whole degrees, scaled by 1000.                          *)

CosTable ==
    <<1000, 1000, 999, 999, 998, 996, 995, 993, 990, 988, 985, 982, 978,
      974, 970, 966, 961, 956, 951, 946, 940, 934, 927, 921, 914, 906,
      899, 891, 883, 875, 866, 857, 848, 839, 829, 819, 809, 799, 788,
      777, 766, 755, 743, 731, 719, 707, 695, 682, 669, 656, 643, 629,
      616, 602, 588, 574, 559, 545, 530, 515, 500, 485, 469, 454, 438,
      423, 407, 391, 375, 358, 342, 326, 309, 292, 276, 259, 242, 225,
      208, 191, 174, 156, 139, 122, 105, 87, 70, 52, 35, 17, 0>>

\* 1000 * cos(d degrees), d any integer.
CosDeg(d) ==
    LET m == d % 360
    IN  IF m <= 90 THEN CosTable[m + 1]
        ELSE IF m <= 180 THEN -CosTable[180 - m + 1]
        ELSE IF m <= 270 THEN -CosTable[m - 180 + 1]
        ELSE CosTable[360 - m + 1]

SinDeg(d) == CosDeg(d - 90)

\* math.cos(math.radians(a)), math.sin(math.radians(a)) for an angle in
\* hundredths of a degree, to the nearest whole degree.
Cos(a) == CosDeg(Round(a, 100))
Sin(a) == SinDeg(Round(a, 100))

\* The integer square root of n >= 0, by bisection between lo and hi.
RECURSIVE ISqrtBetween(_, _, _)
ISqrtBetween(n, lo, hi) ==
    IF hi - lo <= 1 THEN lo
    ELSE LET mid == (lo + hi) \div 2
         IN  IF mid * mid <= n THEN ISqrtBetween(n, mid, hi)
             ELSE ISqrtBetween(n, lo, mid)

SetMin(S) == CHOOSE m \in S : \A n \in S : m <= n

---------------------------------------------------------------------------
(* Car.                                                                    *)

\* Car.__init__: acceleration and deceleration (thousandths per tick at
\* 60 ticks a second).
acceleration == 10
deceleration == 20

\* turning_radius = CAR_LENGTH * turn_radius_ratio (2.5), pixels.
turning_radius == (CAR_LENGTH * 25) \div 10

\* Car(x, y) with x, y in pixels.
NewCar(x, y) ==
    [x |-> x * 10, y |-> y * 10, angle |-> 0, speed |-> 0,
     previous_speed |-> 0, steering |-> 0,
     sensors |-> [i \in 1..8 |-> SENSOR_RANGE * 10]]

\* Mutant: only an acceleration is rate-limited.
LimitedSpeedAcceleratingOnly(speed, previous_speed, dt) ==
    LET speed_diff == speed - previous_speed
        is_accelerating == Abs(speed) > Abs(previous_speed)
        max_change == Round(acceleration * dt * 60, 1000)
    IN  IF is_accelerating /\ Abs(speed_diff) > max_change
        THEN IF speed_diff > 0 THEN previous_speed + max_change
             ELSE previous_speed - max_change
        ELSE speed

\* The speed after the rate limit of Car.update.
LimitedSpeed(speed, previous_speed, dt) ==
    LET speed_diff == speed - previous_speed
        is_accelerating == Abs(speed) > Abs(previous_speed)
        max_change == IF is_accelerating
                      THEN Round(acceleration * dt * 60, 1000)
                      ELSE Round(deceleration * dt * 60, 1000)
    IN  IF speed_diff # 0 /\ Abs(speed_diff) > max_change
        THEN IF speed_diff > 0 THEN previous_speed + max_change
             ELSE previous_speed - max_change
        ELSE speed

\* Mutant: the heading never changes.
AngleChangeNone(speed, steering, dt) == 0

\* Mutant: the turn does not follow the sign of the steering angle.
AngleChangeWithoutSteeringSign(speed, steering, dt) ==
    IF Abs(steering) > 10 /\ Abs(speed) > 100
    THEN LET turning_circle == Round(turning_radius * 10 * 3000,
                                     Max(300, Abs(steering)))
             angular_speed == Round(speed * 10000, turning_circle)
         IN  Round(Round(angular_speed * dt, 1000) * 34377, 100000)
    ELSE 0

\* The change of the heading in one update, hundredths of a degree.
AngleChange(speed, steering, dt) ==
    IF Abs(steering) > 10 /\ Abs(speed) > 100
    THEN LET \* turning_radius / max(0.1, |steering| / 30), tenths of a pixel
             turning_circle == Round(turning_radius * 10 * 3000,
                                     Max(300, Abs(steering)))
             \* speed / turning_circle, millionths of a radian
             angular == Round(speed * 10000, turning_circle)
             angular_speed == IF steering < 0 THEN -angular ELSE angular
             \* math.degrees(angular_speed) * dt * 60
         IN  Round(Round(angular_speed * dt, 1000) * 34377, 100000)
    ELSE 0

\* Car.update(dt): speed and steering are the commands run() has just set.
CarUpdate(car, dt) ==
    LET speed == LimitedSpeed(car.speed, car.previous_speed, dt)
        angle == car.angle + AngleChange(speed, car.steering, dt)
        dx == Round(Round(speed * Cos(angle), 1000) * dt, 1000)
        dy == Round(Round(speed * Sin(angle), 1000) * dt, 1000)
    IN  [car EXCEPT !.speed = speed, !.previous_speed = speed,
                    !.angle = angle, !.x = car.x + dx, !.y = car.y + dy]

\* Car.get_corners of an obstacle car (its angle is 0), tenths of a pixel.
Corners(obs) ==
    <<<<obs.x - (CAR_LENGTH * 10) \div 2, obs.y - (CAR_WIDTH * 10) \div 2>>,
      <<obs.x + (CAR_LENGTH * 10) \div 2, obs.y - (CAR_WIDTH * 10) \div 2>>,
      <<obs.x + (CAR_LENGTH * 10) \div 2, obs.y + (CAR_WIDTH * 10) \div 2>>,
      <<obs.x - (CAR_LENGTH * 10) \div 2, obs.y + (CAR_WIDTH * 10) \div 2>>>>

sensor_angles == <<-135, -90, -45, -20, 20, 45, 90, 135>>

Min(a, b) == IF a <= b THEN a ELSE b

\* The square of the sensor range, tenths of a pixel squared.
RangeSq == (SENSOR_RANGE * 10) * (SENSOR_RANGE * 10)

\* Mutant: a corner counts whatever its projection on the ray is.
CornerSqAnyDirection(c, x, y, dx, dy) ==
    LET px == c[1] - x
        py == c[2] - y
    IN  px * px + py * py

\* One corner seen from (x, y) along the ray (dx, dy): the square of its
\* distance when its projection on the ray is positive, else RangeSq.
CornerSq(c, x, y, dx, dy) ==
    LET px == c[1] - x
        py == c[2] - y
    IN  IF px * dx + py * dy > 0 THEN px * px + py * py ELSE RangeSq

\* The least CornerSq over the corners of obstacles j.., and RangeSq.
RECURSIVE RaySq(_, _, _, _, _, _)
RaySq(obstacles, j, x, y, dx, dy) ==
    IF j > Len(obstacles) THEN RangeSq
    ELSE LET c == Corners(obstacles[j])
         IN  Min(Min(Min(CornerSq(c[1], x, y, dx, dy), CornerSq(c[2], x, y, dx, dy)),
                     Min(CornerSq(c[3], x, y, dx, dy), CornerSq(c[4], x, y, dx, dy))),
                 RaySq(obstacles, j + 1, x, y, dx, dy))

\* Car.update_sensors: per ray, the least math.hypot to an obstacle corner
\* whose projection on the ray is positive, and SENSOR_RANGE if none is
\* nearer.  The least distance is the root of the least square.
update_sensors(car, obstacles) ==
    [i \in 1..8 |->
        LET ang == car.angle + sensor_angles[i] * 100
            sq == RaySq(obstacles, 1, car.x, car.y, Cos(ang), Sin(ang))
        IN  IF sq >= RangeSq THEN SENSOR_RANGE * 10
            ELSE ISqrtBetween(sq, 0, SENSOR_RANGE * 10)]

---------------------------------------------------------------------------
(* Bounds of the model.                                                    *)

\* The frame times clock.tick(FPS) returns, ms; a run keeps one of them.
DtSet == {500, 1000, 2000}

\* A loop iteration starts only while the phase timer is below this (ms)
\* and, in SEARCHING, the one phase with no end of its own while no spot is
\* selected, while the car's x is below this (pixels).
MaxPhaseTimer == 9000
MaxX == 1600

\* Manual advances followed per run.
MaxManual == 1

\* The obstacle cars generate_random_cars may produce: the spots that get a
\* car, and the car's offset from the spot (tenths of a pixel).
ObstacleSpotSets == {{}, {2, 4}, {1, 2, 4, 6}, {1, 3, 5, 6}}
ObstacleOffsets == {<<0, 0>>, <<50, -50>>}

---------------------------------------------------------------------------
(* ParkingSimulation.                                                      *)

\* generate_random_cars: one car per spot of S, in spot order, at the
\* spot's position plus the offset.
RECURSIVE CarsFrom(_, _, _)
CarsFrom(i, S, off) ==
    IF i > Len(spot_positions) THEN <<>>
    ELSE (IF i \in S
          THEN <<[x |-> parking_spots[i].x + off[1],
                  y |-> parking_spots[i].y + off[2]]>>
          ELSE <<>>) \o CarsFrom(i + 1, S, off)

ObstacleLayouts ==
    {CarsFrom(1, S, off) : S \in ObstacleSpotSets, off \in ObstacleOffsets}

\* find_best_parking_spot: over the unoccupied spots in order, the first
\* whose least |obs.x - spot.x| is greater than every earlier one's and
\* greater than 0; None (0) when there is no such spot.
RECURSIVE BestFrom(_, _, _, _)
BestFrom(i, obstacles, best_spot, max_distance) ==
    IF i > Len(spot_positions) THEN best_spot
    ELSE IF parking_spots[i].occupied
         THEN BestFrom(i + 1, obstacles, best_spot, max_distance)
         ELSE LET \* float('inf') when there is no obstacle
                  min_dist_to_obstacle ==
                      SetMin({2000000000} \cup
                             {Abs(obstacles[j].x - parking_spots[i].x) :
                                 j \in 1..Len(obstacles)})
              IN  IF min_dist_to_obstacle > max_distance
                  THEN BestFrom(i + 1, obstacles, i, min_dist_to_obstacle)
                  ELSE BestFrom(i + 1, obstacles, best_spot, max_distance)

find_best_parking_spot(obstacles) == BestFrom(1, obstacles, 0, 0)

\* decision_info before the first decision (None).
NoDecision ==
    [throttle |-> Num(0), steering |-> Num(0), emergency |-> FALSE,
     rule_applied |-> "None"]

\* Mutant: POSITIONING is left as soon as the timer reaches 3.0 s.
TransitionConditionInclusive(phase, spot, car, timer) ==
    CASE phase = "searching" ->
            spot # 0 /\ car.x > parking_spots[spot].x - 50 * 10
      [] phase = "approach" ->
            car.x > parking_spots[spot].x + CAR_LENGTH * 12
      [] phase = "positioning" -> timer >= 3000
      [] phase = "prepare_reverse" -> timer > 500
      [] phase = "reverse_right" -> car.angle < -25 * 100
      [] phase = "reverse_left" -> Abs(car.angle) < 5 * 100 \/ timer > 4000
      [] phase = "final_adjust" -> timer > 3000
      [] OTHER -> FALSE

\* handle_phase_transitions, the condition of the branch of a phase: spot
\* is not 0 where it reads selected_spot.x.
TransitionCondition(phase, spot, car, timer) ==
    CASE phase = "searching" ->
            spot # 0 /\ car.x > parking_spots[spot].x - 50 * 10
      [] phase = "approach" ->
            car.x > parking_spots[spot].x + CAR_LENGTH * 12
      [] phase = "positioning" -> timer > 3000
      [] phase = "prepare_reverse" -> timer > 500
      [] phase = "reverse_right" -> car.angle < -25 * 100
      [] phase = "reverse_left" -> Abs(car.angle) < 5 * 100 \/ timer > 4000
      [] phase = "final_adjust" -> timer > 3000
      [] OTHER -> FALSE

\* Mutant: POSITIONING goes straight to REVERSE_RIGHT.
TransitionTargetSkipping(phase) ==
    CASE phase = "searching" -> "approach"
      [] phase = "approach" -> "positioning"
      [] phase = "positioning" -> "reverse_right"
      [] phase = "prepare_reverse" -> "reverse_right"
      [] phase = "reverse_right" -> "reverse_left"
      [] phase = "reverse_left" -> "final_adjust"
      [] phase = "final_adjust" -> "parked"

\* handle_phase_transitions, the phase the branch of a phase assigns.
TransitionTarget(phase) ==
    CASE phase = "searching" -> "approach"
      [] phase = "approach" -> "positioning"
      [] phase = "positioning" -> "prepare_reverse"
      [] phase = "prepare_reverse" -> "reverse_right"
      [] phase = "reverse_right" -> "reverse_left"
      [] phase = "reverse_left" -> "final_adjust"
      [] phase = "final_adjust" -> "parked"

\* Mutant: a branch for PARKED that starts the search again.
handle_phase_transitions_restarting(phase, spot, car, timer, is_parked) ==
    IF phase = "parked"
    THEN [current_phase |-> "searching", phase_timer |-> 0,
          parked |-> is_parked, raised |-> FALSE]
    ELSE IF phase = "approach" /\ spot = 0
    THEN [current_phase |-> phase, phase_timer |-> timer,
          parked |-> is_parked, raised |-> TRUE]
    ELSE IF ~TransitionCondition(phase, spot, car, timer)
    THEN [current_phase |-> phase, phase_timer |-> timer,
          parked |-> is_parked, raised |-> FALSE]
    ELSE [current_phase |-> TransitionTarget(phase),
          phase_timer |-> IF phase = "final_adjust" THEN timer ELSE 0,
          parked |-> IF phase = "final_adjust" THEN TRUE ELSE is_parked,
          raised |-> FALSE]

\* Mutant: after a transition the branch of the new phase is tried as well.
handle_phase_transitions_chaining(phase, spot, car, timer, is_parked) ==
    IF phase = "approach" /\ spot = 0
    THEN [current_phase |-> phase, phase_timer |-> timer,
          parked |-> is_parked, raised |-> TRUE]
    ELSE IF ~TransitionCondition(phase, spot, car, timer)
    THEN [current_phase |-> phase, phase_timer |-> timer,
          parked |-> is_parked, raised |-> FALSE]
    ELSE IF /\ phase # "final_adjust"
            /\ TransitionCondition(TransitionTarget(phase), spot, car, 0)
    THEN [current_phase |-> TransitionTarget(TransitionTarget(phase)),
          phase_timer |-> 0, parked |-> is_parked, raised |-> FALSE]
    ELSE [current_phase |-> TransitionTarget(phase),
          phase_timer |-> IF phase = "final_adjust" THEN timer ELSE 0,
          parked |-> IF phase = "final_adjust" THEN TRUE ELSE is_parked,
          raised |-> FALSE]

\* handle_phase_transitions: the phase, timer and parked flag after it, and
\* whether it raised (selected_spot.x read in APPROACH with no spot).  Every
\* branch but FINAL_ADJUST's sets the timer to 0; FINAL_ADJUST's sets the
\* parked flag.
handle_phase_transitions(phase, spot, car, timer, is_parked) ==
    IF phase = "approach" /\ spot = 0
    THEN [current_phase |-> phase, phase_timer |-> timer,
          parked |-> is_parked, raised |-> TRUE]
    ELSE IF ~TransitionCondition(phase, spot, car, timer)
    THEN [current_phase |-> phase, phase_timer |-> timer,
          parked |-> is_parked, raised |-> FALSE]
    ELSE [current_phase |-> TransitionTarget(phase),
          phase_timer |-> IF phase = "final_adjust" THEN timer ELSE 0,
          parked |-> IF phase = "final_adjust" THEN TRUE ELSE is_parked,
          raised |-> FALSE]

\* The index of a phase in list(ParkingPhase), 0-based.
PhaseIndex(phase) ==
    (CHOOSE i \in 1..Len(ParkingPhase) : ParkingPhase[i] = phase) - 1

\* Mutant: the index wraps at len(phases), so ABORTED is in the cycle.
NextManualPhaseAllPhases(phase) ==
    ParkingPhase[((PhaseIndex(phase) + 1) % Len(ParkingPhase)) + 1]

\* manual_phase_transition: the next phase.
NextManualPhase(phase) ==
    ParkingPhase[((PhaseIndex(phase) + 1) % (Len(ParkingPhase) - 1)) + 1]

\* Mutant: the spot is looked for wherever the vehicle is.
SearchesSpotAnywhere(phase, spot, timer, car) ==
    phase = "searching" /\ spot = 0 /\ timer > 500

\* run(): whether this loop iteration calls find_best_parking_spot: the
\* phase is SEARCHING, no spot is selected, the phase timer is above 0.5 s
\* and the vehicle is beyond x = 250.
SearchesSpot(phase, spot, timer, car) ==
    phase = "searching" /\ spot = 0 /\ timer > 500 /\ car.x > 250 * 10

\* Mutant: the expert system is kept, with its facts and its history.
ConstructKeepingEngine ==
    /\ current_phase' = "searching"
    /\ selected_spot' = 0
    /\ parked' = FALSE
    /\ phase_timer' = 0
    /\ player_car' = NewCar(200, HEIGHT - 200)
    /\ obstacle_cars' \in ObstacleLayouts
    /\ UNCHANGED <<facts, decision_history, engine_config>>
    /\ decision_info' = NoDecision

\* The state ParkingSimulation.__init__ builds, for some outcome of
\* generate_random_cars.
Construct ==
    /\ current_phase' = "searching"
    /\ selected_spot' = 0
    /\ parked' = FALSE
    /\ phase_timer' = 0
    /\ player_car' = NewCar(200, HEIGHT - 200)
    /\ obstacle_cars' \in ObstacleLayouts
    /\ facts' = EmptyFacts
    /\ decision_history' = <<>>
    /\ decision_info' = NoDecision
    /\ engine_config' = ExpertSystemNew(config)

Init ==
    /\ current_phase = "searching"
    /\ selected_spot = 0
    /\ parked = FALSE
    /\ phase_timer = 0
    /\ player_car = NewCar(200, HEIGHT - 200)
    /\ obstacle_cars \in ObstacleLayouts
    /\ facts = EmptyFacts
    /\ decision_history = <<>>
    /\ decision_info = NoDecision
    /\ engine_config = ExpertSystemNew(config)
    /\ pc = "idle"
    /\ tick_dt \in DtSet
    /\ manual_count = 0
    /\ last = [op |-> "init", phase |-> "searching"]

\* run(): a loop iteration starts; dt is read and added to the phase timer.
BeginTick ==
    /\ pc = "idle"
    /\ current_phase = "searching" => player_car.x < MaxX * 10
    /\ phase_timer < MaxPhaseTimer
    /\ phase_timer' = phase_timer + tick_dt
    /\ pc' = "events"
    /\ last' = [op |-> "begin", phase |-> current_phase]
    /\ UNCHANGED <<current_phase, selected_spot, parked, player_car,
                   obstacle_cars, facts, decision_history, decision_info,
                   tick_dt, manual_count, engine_config>>

\* run(): a K_SPACE event, manual_phase_transition.
ManualAdvance ==
    /\ pc = "events"
    /\ manual_count < MaxManual
    /\ current_phase' = NextManualPhase(current_phase)
    /\ phase_timer' = 0
    /\ manual_count' = manual_count + 1
    /\ last' = [op |-> "manual", phase |-> current_phase]
    /\ UNCHANGED <<selected_spot, parked, player_car, obstacle_cars, facts,
                   decision_history, decision_info, pc, tick_dt,
                   engine_config>>

\* run(): a K_r event, self.__init__(); the loop iteration goes on with
\* its dt.
Reset ==
    /\ pc = "events"
    /\ Construct
    /\ manual_count' = 0
    /\ last' = [op |-> "reset", phase |-> current_phase]
    /\ UNCHANGED <<pc, tick_dt>>

\* run(): the rest of the loop iteration after the events: sensors, spot
\* selection, the decision, its application, Car.update and the phase
\* check; last keeps whether find_best_parking_spot was called.
Control ==
    /\ pc = "events"
    /\ \E sensors \in {update_sensors(player_car, obstacle_cars)} :
       \E spot \in {IF SearchesSpot(current_phase, selected_spot,
                                    phase_timer, player_car)
                    THEN find_best_parking_spot(obstacle_cars)
                    ELSE selected_spot} :
       \E kw \in {TickFacts(current_phase, sensors, player_car.x,
                            player_car.y, player_car.angle, spot)} :
       \E d \in {MakeDecision(facts, kw)} :
       \E car \in {CarUpdate(
                      IF d.emergency
                      THEN [player_car EXCEPT !.sensors = sensors,
                                              !.speed = 0, !.steering = 0]
                      ELSE [player_car EXCEPT !.sensors = sensors,
                                              !.speed = ToFloat(d.throttle),
                                              !.steering = ToFloat(d.steering)],
                      tick_dt)} :
       \E t \in {handle_phase_transitions(current_phase, spot, car,
                                          phase_timer, parked)} :
           /\ selected_spot' = spot
           /\ facts' = MakeDecisionFacts(facts, kw)
           /\ decision_info' = d
           /\ decision_history' =
                  AppendHistory(decision_history,
                         HistoryEntry(current_phase, d, sensors, player_car.x,
                                      player_car.y, player_car.angle))
           /\ player_car' = car
           /\ current_phase' = t.current_phase
           /\ phase_timer' = t.phase_timer
           /\ parked' = t.parked
           /\ pc' = IF t.raised THEN "crashed" ELSE "idle"
    /\ last' = [op |-> "control", phase |-> current_phase,
                searched |-> SearchesSpot(current_phase, selected_spot,
                                          phase_timer, player_car)]
    /\ UNCHANGED <<obstacle_cars, tick_dt, manual_count, engine_config>>

Next == BeginTick \/ ManualAdvance \/ Reset \/ Control

Spec == Init /\ [][Next]_vars

\* The loop without key events: automatic advancement only.
AutoNext == BeginTick \/ Control

AutoSpec == Init /\ [][AutoNext]_vars

\* The automatic loop under its scheduling: run() is a while loop that never
\* blocks, so a tick that can begin does begin and a tick begun is completed.
\* Control has the one guard pc = "events" and always leaves it, so this is
\* ENABLED <<Control>>_vars.
ControlEnabled == pc = "events"

\* Weak fairness of Control, WF_vars(Control), with its enabling condition
\* written out.
ControlFair == []<>(~ControlEnabled) \/ []<><<Control>>_vars

AutoFairSpec == AutoSpec /\ WF_vars(BeginTick) /\ ControlFair

---------------------------------------------------------------------------
(* The knowledge base on its own: a fact store as update_facts calls leave *)
(* it, drawn from bounded sets, and infer applied to it.                   *)

\* The values the facts are drawn from: positions on both sides of the
\* 300 px limit of initial_start and inside the stopping window of spot 1,
\* lane offsets on both sides of 15 px, headings on both sides of -30 and
\* -35 degrees, sensor readings below 30 px, below 100 px and at range.
KbCarX == {2000, 3500, 5200}
KbCarY == {5000, 4700}
KbCarAngle == {0, -1000, -3100, -3600}
KbSpots == {0, 1, 5}
KbSensors ==
    {<<4000, 4000, 4000, 4000, 4000, 4000, 4000, 4000>>,
     <<4000, 4000, 4000, 200, 4000, 4000, 4000, 4000>>,
     <<4000, 1000, 4000, 600, 1000, 4000, 4000, 4000>>}
KbThrottle == {0, 1750}

\* The keyword arguments of one update_facts call: the facts of a tick,
\* with or without a throttle fact.
KbKeywords ==
    LET tick == {TickFacts(p, s, x, y, a, t) :
                    p \in PhaseValues, s \in KbSensors, x \in KbCarX,
                    y \in KbCarY, a \in KbCarAngle, t \in KbSpots}
    IN  tick \cup {DictUpdate(kw, [k \in {"throttle"} |-> v]) :
                      kw \in tick, v \in KbThrottle}

\* Keyword arguments with one key left out.
Drop(kw, k) == [j \in DOMAIN kw \ {k} |-> kw[j]]

\* The facts of a tick with one of them not supplied, with or without a
\* throttle fact.
KbPartialKeywords ==
    LET tick == {TickFacts(p, s, x, 4700, a, t) :
                    p \in PhaseValues, s \in KbSensors, x \in KbCarX,
                    a \in KbCarAngle, t \in KbSpots}
        all == tick \cup {DictUpdate(kw, [k \in {"throttle"} |-> 1750]) : kw \in tick}
    IN  {Drop(kw, k) : kw \in all,
                       k \in {"phase", "selected_spot", "car_x", "car_angle",
                              "front_sensor"}}

\* Fact stores two update_facts calls make: the pose without car_y first,
\* the spot afterwards.
KbTwoCalls ==
    {update_facts(
         update_facts(EmptyFacts,
                      Drop(Drop(TickFacts(p, s, x, 4700, a, 0), "car_y"),
                           "selected_spot")),
         [k \in {"selected_spot"} |-> t]) :
        p \in PhaseValues, s \in KbSensors, x \in KbCarX, a \in KbCarAngle,
        t \in KbSpots}

\* The fact stores infer is applied to: the empty one, one holding the
\* phase only, those one update_facts call that does not raise makes, and
\* those of KbTwoCalls.
KbFacts ==
    {EmptyFacts}
    \cup {update_facts(EmptyFacts, [k \in {"phase"} |-> p]) : p \in PhaseValues}
    \cup {update_facts(EmptyFacts, kw) :
             kw \in {k \in KbKeywords \cup KbPartialKeywords : ~UpdateFactsRaises(k)}}
    \cup KbTwoCalls

InferInit ==
    /\ current_phase = "searching"
    /\ selected_spot = 0
    /\ parked = FALSE
    /\ phase_timer = 0
    /\ player_car = NewCar(200, HEIGHT - 200)
    /\ obstacle_cars = <<>>
    /\ facts \in KbFacts
    /\ decision_history = <<>>
    /\ decision_info = NoDecision
    /\ engine_config = ExpertSystemNew(config)
    /\ pc = "kb"
    /\ tick_dt = 0
    /\ manual_count = 0
    /\ last = [op |-> "init", phase |-> "searching"]

\* KnowledgeBase.infer on the fact store.
KbInfer ==
    /\ pc = "kb"
    /\ decision_info' = infer(facts)
    /\ facts' = InferFacts(facts)
    /\ pc' = "inferred"
    /\ last' = [op |-> "infer", phase |-> current_phase]
    /\ UNCHANGED <<current_phase, selected_spot, parked, phase_timer,
                   player_car, obstacle_cars, decision_history, tick_dt,
                   manual_count, engine_config>>

InferNext == KbInfer

InferSpec == InferInit /\ [][InferNext]_vars

\* The rules whose conditions hold on the fact store f, by declaration index.
Matching(f) == {i \in 1..Len(Rules) : evaluate(Rules[i], f)}

\* The rule a decision names, by declaration index (0 for none).
Applied(d) == IF d.rule_applied \in RuleKeys THEN RuleIndex(d.rule_applied) ELSE 0

---------------------------------------------------------------------------
(* Rule selection.                                                         *)

\* C1: for every fact store, the rule infer returns has the highest
\* priority among all the rules whose conditions hold on it, wherever the
\* rules sit in declaration order.
C1_HighestPriorityWins ==
    pc = "inferred" =>
        \A i \in Matching(facts) :
            /\ Applied(decision_info) # 0
            /\ Rules[Applied(decision_info)].priority >= Rules[i].priority

\* C1, its case: a HIGH rule is returned while a MEDIUM and a LOW rule
\* match as well.
C1_Witness ==
    /\ pc = "inferred"
    /\ decision_info.rule_applied = "initial_start"
    /\ RuleIndex("straight_search") \in Matching(facts)
    /\ RuleIndex("default_stop") \in Matching(facts)

\* The HIGH rules in the order infer tries them.
HighOrder == SelectSeq([i \in 1..Len(sorted_rules) |-> sorted_rules[i].key],
                       LAMBDA k : Rules[RuleIndex(k)].priority = HIGH)

\* C2: among the matching rules that share the highest matching priority,
\* infer returns the one declared first; the descending sort never reorders
\* rules of equal priority, and the HIGH rules are tried in the order
\* initial_start, emergency_stop, slow_down, start_reverse,
\* transition_to_align.
C2_FirstDeclaredWins ==
    /\ \A i, j \in 1..Len(sorted_rules) :
           i < j /\ sorted_rules[i].priority = sorted_rules[j].priority
               => RuleIndex(sorted_rules[i].key) < RuleIndex(sorted_rules[j].key)
    /\ HighOrder = <<"initial_start", "emergency_stop", "slow_down",
                     "start_reverse", "transition_to_align">>
    /\ pc = "inferred" =>
           \A i \in Matching(facts) :
               (Applied(decision_info) # 0
                /\ Rules[i].priority = Rules[Applied(decision_info)].priority)
                   => Applied(decision_info) <= i

\* C2, its case: emergency_stop is returned while slow_down, of the same
\* priority and declared after it, matches as well.
C2_Witness ==
    /\ pc = "inferred"
    /\ decision_info.rule_applied = "emergency_stop"
    /\ RuleIndex("slow_down") \in Matching(facts)

\* The facts of a tick in phase p with every sensor at range and no spot.
DefaultKeywords(p) ==
    TickFacts(p, [i \in 1..8 |-> SENSOR_RANGE * 10], 200 * 10,
              (HEIGHT - 200) * 10, 0, 0)

\* C3: in each of the nine phases, with every sensor at range and no spot,
\* a rule matches (default_stop in every phase but PARKED, parking_complete
\* in PARKED), and no decision of the tick loop is the rule-less one.
C3_SomeRuleAlwaysMatches ==
    /\ \A p \in PhaseValues :
           RuleIndex(IF p = "parked" THEN "parking_complete" ELSE "default_stop")
               \in Matching(InferFacts(update_facts(EmptyFacts, DefaultKeywords(p))))
    /\ decision_info.rule_applied # "none"
    /\ \A i \in 1..Len(decision_history) :
           decision_history[i].rule_applied # "none"

\* C3, its case: a tick whose only matching rule is default_stop.
C3_Witness ==
    /\ last.op = "control"
    /\ decision_info.rule_applied = "default_stop"
    /\ Matching(facts) = {RuleIndex("default_stop")}

---------------------------------------------------------------------------
(* The phase machine.                                                      *)

\* C4: without key events, a tick that changes the phase moves it to its
\* immediate successor in SEARCHING, APPROACH, POSITIONING, PREPARE_REVERSE,
\* REVERSE_RIGHT, REVERSE_LEFT, FINAL_ADJUST, PARKED: no phase is skipped
\* and none is entered again.
C4_AutomaticSuccessorOnly ==
    /\ current_phase # "aborted"
    /\ (last.op = "control" /\ current_phase # last.phase)
           => PhaseIndex(current_phase) = PhaseIndex(last.phase) + 1
    /\ \A i, j \in 1..Len(decision_history) :
           i < j => PhaseIndex(decision_history[i].phase)
                        <= PhaseIndex(decision_history[j].phase)

\* C4, its case: the tick that moved FINAL_ADJUST to PARKED, after every
\* phase before it was passed through.
C4_Witness ==
    /\ last.op = "control"
    /\ last.phase = "final_adjust"
    /\ current_phase = "parked"
    /\ {decision_history[i].phase : i \in 1..Len(decision_history)} =
           {"searching", "approach", "positioning", "prepare_reverse",
            "reverse_right", "reverse_left", "final_adjust"}

\* C5: the phase timer is zero right after every phase change, automatic
\* (FINAL_ADJUST -> PARKED included) or manual.
C5_TimerZeroAfterEveryChange ==
    (last.op \in {"control", "manual"} /\ current_phase # last.phase)
        => phase_timer = 0

\* C6 as stated: a manual advance never makes PARKED or ABORTED the phase.
C6_ManualNeverParkedOrAborted ==
    last.op = "manual" => current_phase \notin {"parked", "aborted"}

\* C6: a manual advance moves the phase to the next one in declaration
\* order whatever the transition conditions are; PARKED is in the cycle
\* (FINAL_ADJUST advances to PARKED, PARKED wraps to SEARCHING) and ABORTED
\* is never made the phase.
C6_ManualCyclesThroughParked ==
    last.op = "manual" =>
        /\ current_phase # "aborted"
        /\ current_phase = IF last.phase = "parked" THEN "searching"
                           ELSE ParkingPhase[PhaseIndex(last.phase) + 2]

\* C6, its case: a manual advance in PARKED wrapped to SEARCHING.
C6_Witness ==
    /\ last.op = "manual"
    /\ last.phase = "parked"
    /\ current_phase = "searching"

\* C7: once the phase is PARKED or ABORTED no tick changes it: neither the
\* step of a tick that runs in such a phase, nor the phase check applied to
\* ABORTED or PARKED with the vehicle, spot and timer of any state.
C7_ParkedAbortedTerminal ==
    /\ (last.op \in {"begin", "control"} /\ last.phase \in {"parked", "aborted"})
           => current_phase = last.phase
    /\ \A p \in {"parked", "aborted"} :
           handle_phase_transitions(p, selected_spot, player_car,
                                    phase_timer, parked).current_phase = p

\* C7, its case: a whole tick ran in PARKED, seconds after the phase was
\* entered.
C7_Witness ==
    /\ last.op = "control"
    /\ last.phase = "parked"
    /\ current_phase = "parked"
    /\ phase_timer > 4000

---------------------------------------------------------------------------
(* The facts a decision sees.                                              *)

\* C8: at every tick after the first, the throttle and steering facts the
\* rules are evaluated on are those of the previous tick's decision.
C8_FactsCarryPreviousDecision ==
    (last.op = "control" /\ Len(decision_history) >= 2) =>
        LET prev == decision_history[Len(decision_history) - 1].decision
        IN  /\ facts["throttle"] = ToFloat(prev.throttle)
            /\ facts["steering"] = ToFloat(prev.steering)

\* C9: phase SEARCHING, front sensor 20 px and a prior throttle above 0
\* give emergency_stop (throttle 0, steering 0, emergency set), whatever
\* the other facts are.
C9_EmergencyStopInSearching ==
    (/\ pc = "inferred"
     /\ Has(facts, "phase") /\ facts["phase"] = "searching"
     /\ Has(facts, "front_sensor") /\ facts["front_sensor"] = 20 * 10
     /\ facts["throttle"] > 0)
        => decision_info = [throttle |-> Num(0), steering |-> Num(0),
                            emergency |-> TRUE,
                            rule_applied |-> "emergency_stop"]

\* C10: in REVERSE_RIGHT at a heading of -31 degrees the phase check moves
\* the phase to REVERSE_LEFT and the rule selected is transition_to_align
\* (throttle -max_reverse_speed * 0.2, steering 0).
C10_TransitionToAlignAtMinus31 ==
    (/\ pc = "inferred"
     /\ Has(facts, "phase") /\ facts["phase"] = "reverse_right"
     /\ Has(facts, "car_angle") /\ facts["car_angle"] = -31 * 100)
        => /\ handle_phase_transitions(
                  "reverse_right", facts["selected_spot"],
                  [player_car EXCEPT !.x = facts["car_x"], !.y = facts["car_y"],
                                     !.angle = facts["car_angle"]],
                  phase_timer, parked).current_phase = "reverse_left"
           /\ decision_info.rule_applied = "transition_to_align"
           /\ ToFloat(decision_info.throttle) = -((config.max_reverse_speed * 2) \div 10)
           /\ ToFloat(decision_info.steering) = 0

---------------------------------------------------------------------------
(* Scenarios and the conditions of the phase check.                        *)

\* C11: in REVERSE_RIGHT at a heading of -10 degrees with a throttle fact
\* of 0, infer selects start_reverse and returns throttle
\* -max_reverse_speed * 0.3 (-0.45), steering 20 and emergency false.
C11_StartReverseAtMinus10 ==
    (/\ pc = "inferred"
     /\ Has(facts, "phase") /\ facts["phase"] = "reverse_right"
     /\ Has(facts, "car_angle") /\ facts["car_angle"] = -10 * 100
     /\ facts["throttle"] = 0)
        => decision_info = [throttle |-> Num(-((config.max_reverse_speed * 3) \div 10)),
                            steering |-> Num(20 * 100),
                            emergency |-> FALSE,
                            rule_applied |-> "start_reverse"]

\* The documented condition under which the phase check leaves a phase,
\* on the spot, vehicle pose and timer the check sees.
DocumentedCondition(phase, spot, x, angle, timer) ==
    \/ phase = "searching" /\ spot # 0 /\ x > parking_spots[spot].x - 500
    \/ phase = "approach" /\ spot # 0
           /\ 10 * x > 10 * parking_spots[spot].x + 12 * (CAR_LENGTH * 10)
    \/ phase = "positioning" /\ timer > 3000
    \/ phase = "prepare_reverse" /\ timer > 500
    \/ phase = "reverse_right" /\ angle < -2500
    \/ phase = "reverse_left" /\ (Abs(angle) < 500 \/ timer > 4000)
    \/ phase = "final_adjust" /\ timer > 3000

\* C12: in each tick the phase check changes the phase if and only if the
\* documented condition of the current phase holds at the check, on the
\* pose after Car.update and the timer of the tick; and POSITIONING held
\* for 3.1 s becomes PREPARE_REVERSE with the timer at 0 (held for 3.0 s it
\* stays).
C12_PhaseChangesIffCondition ==
    [][ /\ last'.op = "control" =>
               (current_phase' # current_phase
                    <=> DocumentedCondition(current_phase, selected_spot',
                                            player_car'.x, player_car'.angle,
                                            phase_timer))
        /\ LET t == handle_phase_transitions("positioning", selected_spot,
                                             player_car, 3100, parked)
           IN  t.current_phase = "prepare_reverse" /\ t.phase_timer = 0
        /\ handle_phase_transitions("positioning", selected_spot, player_car,
                                    3000, parked).current_phase = "positioning"
      ]_vars

\* C12, its case: the tick in which POSITIONING, held for more than 3 s,
\* became PREPARE_REVERSE with the timer at 0.
C12_Witness ==
    /\ last.op = "control"
    /\ last.phase = "positioning"
    /\ current_phase = "prepare_reverse"
    /\ phase_timer = 0

---------------------------------------------------------------------------
(* Determinism of the decision.                                            *)

\* The keyword arguments of the last make_decision call, from the entry it
\* appended to the history and the spot it was given.
LastKeywords ==
    LET h == decision_history[Len(decision_history)]
    IN  TickFacts(h.phase, h.sensors, h.position[1], h.position[2], h.angle,
                  selected_spot)

\* C13: the decision of a tick is the one an engine that has made no
\* decision yet returns on the same phase, pose, sensors and spot: rule,
\* throttle, steering and emergency flag do not depend on the facts and
\* decisions of earlier ticks.
C13_DecisionOfInputsOnly ==
    (last.op = "control" /\ Len(decision_history) > 0) =>
        decision_info = MakeDecision(EmptyFacts, LastKeywords)

\* C13, its case: an engine that has decided before, on other facts and
\* with another rule, decides again.
C13_Witness ==
    /\ last.op = "control"
    /\ Len(decision_history) >= 2
    /\ decision_history[Len(decision_history) - 1].rule_applied
           # decision_info.rule_applied
    /\ Has(facts, "distance_to_spot")

---------------------------------------------------------------------------
(* Car.update on its own: a commanded speed and a previous speed drawn     *)
(* from bounded sets, and one update.                                      *)

\* Speeds in thousandths, from -3.0 to 3.0 in steps of 0.25, and 0.1 either
\* way; frame times of 1/60 s, 0.5 s and 1 s; steering angles of 20 degrees
\* either way, none, and 0.1 and 0.11 degrees.
CarSpeeds == {250 * k : k \in -12..12} \cup {-100, 100}
CarDts == {17, 500, 1000}
CarSteerings == {-2000, 0, 10, 11, 2000}

CarInit ==
    /\ current_phase = "searching"
    /\ selected_spot = 0
    /\ parked = FALSE
    /\ phase_timer = 0
    /\ \E speed \in CarSpeeds, previous \in CarSpeeds, steering \in CarSteerings :
           player_car = [NewCar(200, HEIGHT - 200) EXCEPT
                             !.speed = speed, !.previous_speed = previous,
                             !.steering = steering]
    /\ obstacle_cars = <<>>
    /\ facts = EmptyFacts
    /\ decision_history = <<>>
    /\ decision_info = NoDecision
    /\ engine_config = ExpertSystemNew(config)
    /\ pc = "car"
    /\ tick_dt \in CarDts
    /\ manual_count = 0
    /\ last = [op |-> "init", phase |-> "searching"]

\* Car.update(dt); last keeps the speed commanded, the previous speed, the
\* heading before the update and the steering angle.
CarStep ==
    /\ pc = "car"
    /\ player_car' = CarUpdate(player_car, tick_dt)
    /\ pc' = "updated"
    /\ last' = [op |-> "update", phase |-> current_phase,
                speed |-> player_car.speed,
                previous_speed |-> player_car.previous_speed,
                angle |-> player_car.angle,
                steering |-> player_car.steering]
    /\ UNCHANGED <<current_phase, selected_spot, parked, phase_timer,
                   obstacle_cars, facts, decision_history, decision_info,
                   tick_dt, manual_count, engine_config>>

CarNext == CarStep

CarSpec == CarInit /\ [][CarNext]_vars

\* The cap of one update: acceleration * dt * 60 when the commanded speed
\* is larger in magnitude than the previous one, deceleration * dt * 60
\* otherwise.
SpeedCap(commanded, previous, dt) ==
    IF Abs(commanded) > Abs(previous)
    THEN (acceleration * dt * 60) \div 1000
    ELSE (deceleration * dt * 60) \div 1000

\* C14: one Car.update changes the speed by at most the cap, and when the
\* commanded change is within the cap the speed is the commanded one.
C14_SpeedChangeCapped ==
    pc = "updated" =>
        LET cap == SpeedCap(last.speed, last.previous_speed, tick_dt)
        IN  /\ Abs(player_car.speed - last.previous_speed) <= cap
            /\ Abs(last.speed - last.previous_speed) <= cap
                   => player_car.speed = last.speed

\* C14, its case: a command further from the previous speed than the cap
\* of a deceleration, and the speed moved by exactly the cap.
C14_Witness ==
    /\ pc = "updated"
    /\ Abs(last.speed) <= Abs(last.previous_speed)
    /\ Abs(last.speed - last.previous_speed)
           > SpeedCap(last.speed, last.previous_speed, tick_dt)
    /\ Abs(player_car.speed - last.previous_speed)
           = SpeedCap(last.speed, last.previous_speed, tick_dt)

---------------------------------------------------------------------------
(* Sensors and the decision history.                                       *)

\* Whether no corner of any obstacle has a positive projection on ray i of
\* a vehicle at (x, y) with the heading angle.
Unobstructed(i, x, y, angle) ==
    LET ang == angle + sensor_angles[i] * 100
    IN  \A j \in 1..Len(obstacle_cars) :
            \A k \in 1..4 :
                LET c == Corners(obstacle_cars[j])[k]
                IN  (c[1] - x) * Cos(ang) + (c[2] - y) * Sin(ang) <= 0

\* C15: after every update_sensors call each of the 8 distances is in
\* [0, SENSOR_RANGE], and a ray on which no obstacle corner has a positive
\* projection reports exactly SENSOR_RANGE.
C15_SensorsWithinRange ==
    /\ Len(player_car.sensors) = 8
    /\ \A i \in 1..8 : /\ player_car.sensors[i] >= 0
                       /\ player_car.sensors[i] <= SENSOR_RANGE * 10
    /\ Len(decision_history) > 0 =>
           LET h == decision_history[Len(decision_history)]
           IN  \A i \in 1..8 :
                   /\ h.sensors[i] >= 0
                   /\ h.sensors[i] <= SENSOR_RANGE * 10
                   /\ Unobstructed(i, h.position[1], h.position[2], h.angle)
                          => h.sensors[i] = SENSOR_RANGE * 10

\* C15, its case: with obstacle cars present, one ray reads a corner nearer
\* than the range while another one, unobstructed, reads the range.
C15_Witness ==
    /\ last.op = "control"
    /\ Len(obstacle_cars) > 0
    /\ LET h == decision_history[Len(decision_history)]
       IN  /\ \E i \in 1..8 : h.sensors[i] < SENSOR_RANGE * 10
           /\ \E i \in 1..8 :
                  /\ Unobstructed(i, h.position[1], h.position[2], h.angle)
                  /\ h.sensors[i] = SENSOR_RANGE * 10

\* C16: a tick's make_decision appends exactly one entry to the decision
\* history and leaves the earlier entries as they were; no other step than
\* a reset changes the history.
C16_HistoryAppendOnly ==
    [][ /\ last'.op = "control" =>
               /\ Len(decision_history') = Len(decision_history) + 1
               /\ SubSeq(decision_history', 1, Len(decision_history))
                      = decision_history
               /\ decision_history'[Len(decision_history')].decision
                      = decision_info'
        /\ last'.op \in {"begin", "manual"} =>
               decision_history' = decision_history
      ]_vars

\* C16, its case: a history of several entries, made in different phases.
C16_Witness ==
    /\ last.op = "control"
    /\ Len(decision_history) >= 3
    /\ decision_history[1].phase # decision_history[Len(decision_history)].phase

---------------------------------------------------------------------------
(* Facts that are absent, and actions that cannot be evaluated.            *)

\* Whether evaluating rule r on f reaches a condition that raises.
Raises(r, f) ==
    \E k \in 1..Len(r.conditions) :
        /\ EvalCond(r.conditions[k], f) = "E"
        /\ \A j \in 1..(k - 1) : EvalCond(r.conditions[j], f) = "T"

\* The places in the order infer tries the rules of those whose conditions
\* are all true on f.
AllTrue(f) ==
    {i \in 1..Len(sorted_rules) :
        \A k \in 1..Len(sorted_rules[i].conditions) :
            EvalCond(sorted_rules[i].conditions[k], f) = "T"}

\* C17: a rule with a condition that reads an absent fact, or that cannot
\* be evaluated, does not match, and infer goes on with the rules after it:
\* it returns the first rule, in its order, whose conditions are all true.
C17_RaisingConditionSkipsRule ==
    pc = "inferred" =>
        /\ \A i \in 1..Len(Rules) :
               Raises(Rules[i], facts) => i \notin Matching(facts)
        /\ decision_info.rule_applied =
               IF AllTrue(facts) = {} THEN "none"
               ELSE sorted_rules[CHOOSE i \in AllTrue(facts) :
                                    \A j \in AllTrue(facts) : i <= j].key

\* C17, its case: a rule tried before the one returned had its first
\* condition true and its second one raising on an absent fact.
C17_Witness ==
    /\ pc = "inferred"
    /\ ~Has(facts, "car_x")
    /\ Raises(Rules[RuleIndex("initial_start")], facts)
    /\ decision_info.rule_applied = "default_stop"

\* C18: when no rule matches, infer returns the neutral decision: throttle
\* 0, steering 0, emergency false, rule id "none".
C18_NeutralDecisionWhenNoMatch ==
    (pc = "inferred" /\ Matching(facts) = {}) =>
        decision_info = [throttle |-> Num(0), steering |-> Num(0),
                         emergency |-> FALSE, rule_applied |-> "none"]

\* C18, its case: infer on a fact store that holds the pose and the sensors
\* but no phase.
C18_Witness ==
    /\ pc = "inferred"
    /\ ~Has(facts, "phase")
    /\ Has(facts, "car_x")
    /\ Matching(facts) = {}
    /\ decision_info.rule_applied = "none"

\* Whether the action template v of the rule returned fails to evaluate on f.
TemplateFails(v, f) ==
    v.tag = "str" /\ v.str \in ExprTemplates /\ ~ExprOk(v.str, f)

\* C19: when the throttle or steering expression of the rule returned fails
\* to evaluate, that output of the decision is the previous numeric value
\* (the throttle or steering fact), and float() of it in the control loop
\* does not raise.
C19_FailedActionKeepsPreviousValue ==
    (pc = "inferred" /\ Applied(decision_info) # 0) =>
        LET r == Rules[Applied(decision_info)]
        IN  /\ TemplateFails(r.throttle, facts) =>
                   /\ decision_info.throttle = Num(facts["throttle"])
                   /\ ~FloatRaises(decision_info.throttle)
            /\ TemplateFails(r.steering, facts) =>
                   /\ decision_info.steering = Num(facts["steering"])
                   /\ ~FloatRaises(decision_info.steering)

---------------------------------------------------------------------------
(* Construction of the engine from a configuration.                        *)

\* The fields a configuration is built from: sensor ranges and speeds that
\* are negative, zero and positive.
ConfigSensorRanges == {-400, -1, 0, 1, 400}
ConfigMaxSpeeds == {-2500, 0, 2500, 5000}
ConfigMaxReverseSpeeds == {0, 1500, 3000}
ConfigTurnRatios == {0, 25}

ConfigInit ==
    /\ current_phase = "searching"
    /\ selected_spot = 0
    /\ parked = FALSE
    /\ phase_timer = 0
    /\ player_car = NewCar(200, HEIGHT - 200)
    /\ obstacle_cars = <<>>
    /\ facts = EmptyFacts
    /\ decision_history = <<>>
    /\ decision_info = NoDecision
    /\ engine_config = NoEngine
    /\ pc = "config"
    /\ tick_dt = 0
    /\ manual_count = 0
    /\ last = [op |-> "init", phase |-> "searching"]

\* ExpertSystem(ParkingConfig(...)): neither constructor checks a field, so
\* the engine is constructed whatever the fields are.
ConstructEngine ==
    /\ pc = "config"
    /\ \E sr \in ConfigSensorRanges, ms \in ConfigMaxSpeeds,
          mrs \in ConfigMaxReverseSpeeds, trr \in ConfigTurnRatios :
           engine_config' = ExpertSystemNew(ParkingConfigNew(trr, sr, ms, mrs, 30, 3))
    /\ facts' = EmptyFacts
    /\ decision_history' = <<>>
    /\ pc' = "constructed"
    /\ last' = [op |-> "construct", phase |-> current_phase]
    /\ UNCHANGED <<current_phase, selected_spot, parked, phase_timer,
                   player_car, obstacle_cars, decision_info, tick_dt,
                   manual_count>>

ConfigNext == ConstructEngine

ConfigSpec == ConfigInit /\ [][ConfigNext]_vars

\* C20: no engine is constructed from an invalid configuration: one that
\* has been constructed has a sensor range above 0.
C20_InvalidConfigurationRejected ==
    pc = "constructed" => engine_config.sensor_range > 0

---------------------------------------------------------------------------
(* The values of a decision, and the choice of the spot.                   *)

\* C21: whenever a rule matched, the throttle and the steering of the
\* decision infer returns are numbers, never the text of an action
\* template; also for the templates "20" and "0" of start_reverse and
\* transition_to_align.
C21_DecisionValuesAreNumbers ==
    (pc = "inferred" /\ Applied(decision_info) # 0) =>
        /\ decision_info.throttle.tag = "num"
        /\ decision_info.steering.tag = "num"

\* The spots that are not occupied, and the least |obs.x - spot.x| of a
\* spot over the obstacle cars (no obstacle: infinity).
Unoccupied == {i \in 1..Len(spot_positions) : ~parking_spots[i].occupied}

MinDistance(i) ==
    SetMin({2000000000} \cup {Abs(obstacle_cars[j].x - parking_spots[i].x) :
                                 j \in 1..Len(obstacle_cars)})

\* C22: the spot find_best_parking_spot returns in the tick that calls it
\* is never an occupied one, and while a spot is unoccupied it is the
\* unoccupied spot with the largest least distance to an obstacle, the
\* first declared one among equals; no spot is returned only when every
\* spot is occupied.
C22_FarthestUnoccupiedSpot ==
    (last.op = "control" /\ last.searched) =>
        /\ selected_spot # 0 => selected_spot \in Unoccupied
        /\ Unoccupied # {} =>
               /\ selected_spot \in Unoccupied
               /\ \A i \in Unoccupied :
                      \/ MinDistance(selected_spot) > MinDistance(i)
                      \/ /\ MinDistance(selected_spot) = MinDistance(i)
                         /\ selected_spot <= i

---------------------------------------------------------------------------
(* The selection of the spot over a run.                                   *)

\* C23: the selected spot changes only in a tick that runs in SEARCHING
\* with no spot selected, the phase timer above 0.5 s and the vehicle
\* beyond x = 250, or in a reset, which clears it; a spot once selected is
\* kept by every later tick and by every manual advance.
C23_SpotSelectedOnce ==
    [][ selected_spot' # selected_spot =>
            \/ /\ last'.op = "reset"
               /\ selected_spot' = 0
            \/ /\ last'.op = "control"
               /\ current_phase = "searching"
               /\ selected_spot = 0
               /\ phase_timer > 500
               /\ player_car.x > 250 * 10
      ]_vars

\* C23, its case: long after the spot was selected, and after a manual
\* advance put the phase back to SEARCHING with the vehicle beyond x = 250,
\* a tick ran and the spot is the one selected first.
C23_Witness ==
    /\ last.op = "control"
    /\ last.phase = "searching"
    /\ manual_count = 1
    /\ parked
    /\ selected_spot # 0
    /\ selected_spot = find_best_parking_spot(obstacle_cars)
    /\ phase_timer > 500

---------------------------------------------------------------------------
(* ABORTED, and the heading of the vehicle.                                *)

\* C24: ABORTED is the active phase in no reachable state, and no decision
\* was ever made in it: neither the phase check nor a manual advance or a
\* reset makes it the phase, from whatever phase they start.
C24_AbortedNeverActive ==
    /\ current_phase # "aborted"
    /\ last.phase # "aborted"
    /\ \A i \in 1..Len(decision_history) :
           decision_history[i].phase # "aborted"
    /\ \A p \in PhaseValues \ {"aborted"} :
           /\ NextManualPhase(p) # "aborted"
           /\ handle_phase_transitions(p, selected_spot, player_car,
                                       phase_timer, parked).current_phase
                  # "aborted"

\* C24, its case: a manual advance was made in PARKED, the last phase
\* before ABORTED in declaration order.
C24_Witness ==
    /\ last.op = "manual"
    /\ last.phase = "parked"
    /\ parked
    /\ current_phase # "aborted"
    /\ Len(decision_history) > 0

\* C25: Car.update leaves the heading as it is whenever the steering angle
\* is at most 0.1 degree in magnitude or the speed after the rate limit is
\* at most 0.1 in magnitude; a heading it changes moves with the sign of
\* the speed under a positive steering angle and against it under a
\* negative one.
C25_HeadingChangeFollowsSteering ==
    pc = "updated" =>
        LET change == player_car.angle - last.angle
        IN  /\ (Abs(last.steering) <= 10 \/ Abs(player_car.speed) <= 100)
                   => change = 0
            /\ (change # 0 /\ last.steering > 0)
                   => (change > 0 <=> player_car.speed > 0)
            /\ (change # 0 /\ last.steering < 0)
                   => (change > 0 <=> player_car.speed < 0)

\* C25, its case: reversing under a negative steering angle turned the
\* heading upwards.
C25_Witness ==
    /\ pc = "updated"
    /\ last.steering < 0
    /\ player_car.speed < 0
    /\ player_car.angle > last.angle

---------------------------------------------------------------------------
(* Reset.                                                                  *)

\* C26: right after a reset, in whatever state it was issued, the phase is
\* SEARCHING, no spot is selected, the parked flag is false, the phase
\* timer is 0, the decision history is empty, the vehicle is at its start
\* pose with speed, previous speed and steering 0, and the fact store is a
\* fresh one, on which the rules read a throttle fact of 0.
C26_ResetRestoresInitialState ==
    last.op = "reset" =>
        /\ current_phase = "searching"
        /\ selected_spot = 0
        /\ parked = FALSE
        /\ phase_timer = 0
        /\ decision_history = <<>>
        /\ player_car.x = 200 * 10
        /\ player_car.y = (HEIGHT - 200) * 10
        /\ player_car.angle = 0
        /\ player_car.speed = 0
        /\ player_car.previous_speed = 0
        /\ player_car.steering = 0
        /\ facts = EmptyFacts
        /\ InferFacts(facts)["throttle"] = 0

\* C26, its case: a reset issued in PARKED, after a whole maneuver.
C26_Witness ==
    /\ last.op = "reset"
    /\ last.phase = "parked"
    /\ current_phase = "searching"
    /\ decision_history = <<>>

---------------------------------------------------------------------------
(* The throttle fact in the tick loop.                                     *)

\* C27: in the tick loop the throttle fact the rules are evaluated on is 0
\* at every tick, so no decision is made by emergency_stop or slow_down
\* and none has the emergency flag set, whatever the front sensor reads.
C27_ThrottleFactAlwaysZero ==
    /\ last.op = "control" => facts["throttle"] = 0
    /\ decision_info.rule_applied \notin {"emergency_stop", "slow_down"}
    /\ ~decision_info.emergency
    /\ \A i \in 1..Len(decision_history) :
           /\ decision_history[i].rule_applied \notin {"emergency_stop", "slow_down"}
           /\ ~decision_history[i].decision.emergency

\* C27, its case: a tick whose front sensor reads less than 30 px, right
\* after a tick that set a throttle above 0.
C27_Witness ==
    /\ last.op = "control"
    /\ Len(decision_history) >= 2
    /\ ToFloat(decision_history[Len(decision_history) - 1].decision.throttle) > 0
    /\ facts["front_sensor"] < 30 * 10

---------------------------------------------------------------------------
(* The phase check after manual advances.                                  *)

\* C28: the phase check never fails: whenever a tick runs it in APPROACH a
\* spot is selected, so the tick does not end in an error.
C28_ApproachAlwaysHasSpot ==
    /\ pc # "crashed"
    /\ (pc = "events" /\ current_phase = "approach") => selected_spot # 0

\* C29: the parked flag is set exactly when the phase is PARKED.
C29_ParkedFlagIffParked ==
    parked <=> current_phase = "parked"

\* C30: a tick's phase check makes at most one transition, to the next
\* phase, also when the condition of the phase it enters holds already;
\* and the decision made and applied in the tick is the one inferred for
\* the phase that was active before the check.
C30_OneTransitionPerTick ==
    last.op = "control" =>
        /\ current_phase # last.phase =>
               PhaseIndex(current_phase) = PhaseIndex(last.phase) + 1
        /\ facts["phase"] = last.phase
        /\ decision_info = infer(facts)
        /\ decision_history[Len(decision_history)].phase = last.phase
        /\ decision_history[Len(decision_history)].decision = decision_info
        /\ player_car.steering = IF decision_info.emergency THEN 0
                                 ELSE ToFloat(decision_info.steering)

\* C30, its case: the tick moved SEARCHING to APPROACH with the vehicle
\* already beyond the point where APPROACH is left, and the decision of
\* the tick is one of a SEARCHING rule.
C30_Witness ==
    /\ last.op = "control"
    /\ last.phase = "searching"
    /\ current_phase = "approach"
    /\ selected_spot # 0
    /\ TransitionCondition("approach", selected_spot, player_car, phase_timer)
    /\ decision_info.rule_applied \in {"straight_search", "center_correction", "spot_found"}

---------------------------------------------------------------------------
(* The range of the throttle and of the speed.                             *)

\* C31: in the tick loop the throttle of every decision is a number within
\* [-max_reverse_speed, max_speed] (-1.5 to 2.5 with the configuration of
\* the program), and so is the speed of the vehicle after Car.update.
C31_ThrottleAndSpeedWithinLimits ==
    /\ engine_config.max_speed = 2500
    /\ engine_config.max_reverse_speed = 1500
    /\ decision_info.throttle.tag = "num"
    /\ decision_info.throttle.num >= -engine_config.max_reverse_speed
    /\ decision_info.throttle.num <= engine_config.max_speed
    /\ \A i \in 1..Len(decision_history) :
           /\ decision_history[i].decision.throttle.tag = "num"
           /\ decision_history[i].decision.throttle.num >= -engine_config.max_reverse_speed
           /\ decision_history[i].decision.throttle.num <= engine_config.max_speed
    /\ player_car.speed >= -engine_config.max_reverse_speed
    /\ player_car.speed <= engine_config.max_speed
    /\ player_car.previous_speed = player_car.speed

\* C31, its case: the vehicle is reversing, after decisions with the
\* largest forward throttle (0.7 max_speed) and the largest reverse
\* throttle (0.3 max_reverse_speed) of the rule table.
C31_Witness ==
    /\ last.op = "control"
    /\ player_car.speed < 0
    /\ \E i \in 1..Len(decision_history) :
           decision_history[i].decision.throttle.num = 1750
    /\ \E i \in 1..Len(decision_history) :
           decision_history[i].decision.throttle.num = -450


\* --------------------------------------------------------------------------
\* Progress of the automatic manoeuvre.

\* C32: under automatic advancement only and ticks of positive dt, once the
\* phase is POSITIONING it eventually becomes PARKED.
C32_PositioningLeadsToParked ==
    (current_phase = "positioning") ~> (current_phase = "parked")

\* The manoeuvre has run from POSITIONING to PARKED, and REVERSE_RIGHT was
\* left by the heading that start_reverse produced.
C32_Witness ==
    /\ current_phase = "parked"
    /\ parked
    /\ manual_count = 0
    /\ \E i \in 1..Len(decision_history) :
           decision_history[i].phase = "positioning"
    /\ \E i \in 1..Len(decision_history) :
           /\ decision_history[i].phase = "reverse_right"
           /\ decision_history[i].rule_applied = "start_reverse"
           /\ decision_history[i].angle >= -25 * 100
    /\ \E i \in 1..Len(decision_history) :
           /\ decision_history[i].phase = "reverse_left"
           /\ decision_history[i].angle < -25 * 100

============================================================================
